---- MODULE Spec2Model ----
(***************************************************************************)
(* A model of model/det.py: the channel shuffle, the InvertedResidual      *)
(* block, and the RFDet detector (forward, process, loss, weights_init,    *)
(* convO_init).                                                            *)
(*                                                                         *)
(* Tensors are modelled by what the properties read: the channel axis as a *)
(* sequence of channel labels, the other axes by their sizes, score values *)
(* by small integers.  Every component has its own specification over its  *)
(* own variables; the variables of the other components stay idle.         *)
(***************************************************************************)
EXTENDS Integers, Sequences, FiniteSets, TLC

VARIABLES
    t0, t, hist,                 \* channel_shuffle: the tensor before, now, the groups applied
    blk, blkRet,                 \* InvertedResidual: the constructed block, the last forward call
    cfg, training, params, bn,   \* RFDet: constructor arguments, mode, parameter version, BN buffers
    last, prev,                  \* RFDet.forward: the last call and the one before it
    procCfg, procRet,            \* RFDet.process: NMS/top-k settings, the last call
    lossRet,                     \* RFDet.loss: the last call
    mods, initLast               \* weights_init / convO_init: the modules, the last call

shuffleVars == <<t0, t, hist>>
blockVars == <<blk, blkRet>>
netVars == <<cfg, training, params, bn, last, prev>>
procVars == <<procCfg, procRet>>
lossVars == <<lossRet>>
initVars == <<mods, initLast>>
vars == <<t0, t, hist, blk, blkRet, cfg, training, params, bn, last, prev,
          procCfg, procRet, lossRet, mods, initLast>>

None == [status |-> "none"]

\* ---------------------------------------------------------------- bounds

MaxChan == 6
MaxHW == 4
MaxBlockHW == 2
MaxBatch == 2
MaxTrack == 1

\* The channel counts tried: 1..MaxChan and the backbone's 12.
BackboneChannels == 12
Channels == (1..MaxChan) \cup {BackboneChannels}

\* ------------------------------------------------------- idle components

IdleShuffle == t0 = <<>> /\ t = None /\ hist = <<>>
IdleBlock == blk = None /\ blkRet = None
IdleNet ==
    /\ cfg = None /\ training = FALSE /\ params = 0 /\ bn = None
    /\ last = None /\ prev = None
IdleProc == procCfg = None /\ procRet = None
IdleLoss == lossRet = None
IdleInit == mods = <<>> /\ initLast = None

\* ------------------------------------------------------- channel_shuffle

\* x.view(batchsize, groups, channels_per_group, height, width) needs the
\* element count to match: groups * channels_per_group = num_channels.
ViewOk(num_channels, groups) ==
    groups * (num_channels \div groups) = num_channels

\* The shuffle without its transpose.
channel_shuffle_identity(x, groups) == x

\* The channel axis after view / transpose(1, 2) / flatten: position
\* j * groups + g of the result holds channel g * channels_per_group + j of
\* x (0-based), for j < channels_per_group and g < groups.
channel_shuffle(x, groups) ==
    LET num_channels == Len(x)
        channels_per_group == num_channels \div groups
    IN  [k \in 1..num_channels |->
            LET j == (k - 1) \div groups
                g == (k - 1) % groups
            IN  x[g * channels_per_group + j + 1]]

\* A fresh tensor of C channels, channel i labelled <<"x", i>>.
InputChannels(C) == [i \in 1..C |-> <<"x", i>>]

InitShuffle ==
    /\ t0 \in {InputChannels(C) : C \in Channels}
    /\ t = [status |-> "ok", chans |-> t0]
    /\ hist = <<>>
    /\ IdleBlock /\ IdleNet /\ IdleProc /\ IdleLoss /\ IdleInit

\* One call channel_shuffle(t, groups); the view raises when groups does
\* not divide the channel count.
Shuffle(groups) ==
    /\ t.status = "ok"
    /\ Len(hist) < 2
    /\ hist' = Append(hist, groups)
    /\ t' = IF ViewOk(Len(t.chans), groups)
            THEN [status |-> "ok", chans |-> channel_shuffle(t.chans, groups)]
            ELSE [status |-> "RuntimeError", chans |-> t.chans]
    /\ UNCHANGED <<t0, blockVars, netVars, procVars, lossVars, initVars>>

NextShuffle == \E groups \in 1..BackboneChannels : Shuffle(groups)

SpecShuffle == InitShuffle /\ [][NextShuffle]_vars

\* C5 as stated: channel_shuffle(x, 2) applied twice restores the original
\* channel order on every even channel count.
C5_ShuffleTwiceIsIdentity ==
    (hist = <<2, 2>> /\ Len(t0) % 2 = 0) => (t.status = "ok" /\ t.chans = t0)

\* C5 amended: on an even channel count C, channel_shuffle(x, 2) is a
\* bijection on channel positions whose inverse is channel_shuffle(x, C / 2);
\* applied twice it restores the original order when C is 2 or 4 and does not
\* when C >= 6 (the backbone's 12 included).
C5_ShuffleBijectionInverse ==
    Len(t0) % 2 = 0 =>
        /\ (hist = <<2>>) =>
              /\ t.status = "ok"
              /\ Len(t.chans) = Len(t0)
              /\ \A i \in 1..Len(t0) :
                    Cardinality({k \in 1..Len(t0) : t.chans[k] = t0[i]}) = 1
        /\ (hist = <<2, Len(t0) \div 2>>) => (t.status = "ok" /\ t.chans = t0)
        /\ (hist = <<2, 2>> /\ Len(t0) \in {2, 4}) => t.chans = t0
        /\ (hist = <<2, 2>> /\ Len(t0) >= 6) => t.chans # t0

\* The backbone's 12 channels shuffled with 2 groups and then with 6.
C5_Witness ==
    /\ Len(t0) = BackboneChannels
    /\ hist = <<2, 6>>
    /\ t.status = "ok"
    /\ t.chans = t0

\* --------------------------------------------------------- InvertedResidual

\* nn.Conv2d / nn.BatchNorm2d as the block uses them.  A convolution's
\* output size along one axis (kernel k, stride s, padding p, dilation d);
\* the input must hold the dilated kernel.
ConvFits(n, k, p, d) == n + 2 * p >= d * (k - 1) + 1
ConvOut(n, k, s, p, d) == (n + 2 * p - d * (k - 1) - 1) \div s + 1

\* F.batch_norm in training mode refuses a single value per channel.
BatchNormOk(train, B, H, W) == train => B * H * W > 1

\* An assertion that lets stride 3 through.
StrideOkLoose(stride) == stride \in {1, 2, 3}

\* assert stride in [1, 2]
StrideOk(stride) == stride \in {1, 2}

oup_inc(oup) == oup \div 2

\* InvertedResidual.__init__: the assertion, then the branches; a grouped
\* convolution with groups = 0 cannot be built.
ConstructStatus(inp, oup, stride, benchmodel) ==
    IF ~StrideOk(stride) THEN "AssertionError"
    ELSE IF benchmodel = 1
         THEN IF oup_inc(oup) = 0 THEN "ValueError" ELSE "ok"
         ELSE IF inp = 0 \/ oup_inc(oup) = 0 THEN "ValueError" ELSE "ok"

\* banch2 of either variant on a (B, C, H, W) tensor: pw conv (cin -> oup_inc),
\* BN, ReLU, dw 3x3 conv with the block's stride, BN, pw conv, BN, ReLU.
Banch2(b, cin, train, B, C, H, W) ==
    LET H2 == ConvOut(H, 3, b.stride, 1, 1)
        W2 == ConvOut(W, 3, b.stride, 1, 1)
    IN  IF C # cin THEN [status |-> "RuntimeError"]
        ELSE IF ~BatchNormOk(train, B, H, W) THEN [status |-> "ValueError"]
        ELSE IF ~BatchNormOk(train, B, H2, W2) THEN [status |-> "ValueError"]
        ELSE [status |-> "ok",
              chans |-> [j \in 1..oup_inc(b.oup) |-> <<"banch2", j>>],
              H |-> H2, W |-> W2]

\* banch1 (variant 2): dw 3x3 conv (inp channels, the block's stride), BN,
\* pw conv (inp -> oup_inc), BN, ReLU.
Banch1(b, train, B, C, H, W) ==
    LET H2 == ConvOut(H, 3, b.stride, 1, 1)
        W2 == ConvOut(W, 3, b.stride, 1, 1)
    IN  IF C # b.inp THEN [status |-> "RuntimeError"]
        ELSE IF ~BatchNormOk(train, B, H2, W2) THEN [status |-> "ValueError"]
        ELSE [status |-> "ok",
              chans |-> [j \in 1..oup_inc(b.oup) |-> <<"banch1", j>>],
              H |-> H2, W |-> W2]

\* torch.cat((x, out), 1): every axis but the channel axis must agree.
Concat(a, b) ==
    IF a.H = b.H /\ a.W = b.W
    THEN [status |-> "ok", chans |-> a.chans \o b.chans, H |-> a.H, W |-> a.W]
    ELSE [status |-> "RuntimeError"]

\* The final channel_shuffle(out, 2) of forward.
ShuffleOut(out) ==
    IF out.status # "ok" THEN out
    ELSE IF ~ViewOk(Len(out.chans), 2) THEN [status |-> "RuntimeError"]
    ELSE [out EXCEPT !.chans = channel_shuffle(out.chans, 2)]

\* InvertedResidual.forward on a (B, C, H, W) tensor.
BlockForward(b, train, B, C, H, W) ==
    LET x == InputChannels(C)
    IN  IF b.benchmodel = 1
        THEN LET x1 == [status |-> "ok", chans |-> SubSeq(x, 1, C \div 2),
                        H |-> H, W |-> W]
                 r2 == Banch2(b, oup_inc(b.oup), train, B, C - C \div 2, H, W)
             IN  IF r2.status # "ok" THEN r2 ELSE ShuffleOut(Concat(x1, r2))
        ELSE IF b.benchmodel = 2
        THEN LET r1 == Banch1(b, train, B, C, H, W)
                 r2 == Banch2(b, b.inp, train, B, C, H, W)
             IN  IF r1.status # "ok" THEN r1
                 ELSE IF r2.status # "ok" THEN r2
                 ELSE ShuffleOut(Concat(r1, r2))
        ELSE [status |-> "UnboundLocalError"]

\* Whether the call enters the first batch-normalisation layer (the
\* convolution before it accepted the channel count).  BatchNorm2d.forward
\* counts the batch (num_batches_tracked) in training mode before
\* F.batch_norm looks at the batch size.
ReachesBatchNorm(b, C) ==
    /\ b.benchmodel \in {1, 2}
    /\ IF b.benchmodel = 1 THEN C - C \div 2 = oup_inc(b.oup) ELSE C = b.inp

InitBlock ==
    /\ blk = None /\ blkRet = None
    /\ IdleShuffle /\ IdleNet /\ IdleProc /\ IdleLoss /\ IdleInit

\* InvertedResidual(inp, oup, stride, benchmodel)
Construct(inp, oup, stride, benchmodel) ==
    /\ blk = None
    /\ blk' = [status |-> ConstructStatus(inp, oup, stride, benchmodel),
               inp |-> inp, oup |-> oup, stride |-> stride,
               benchmodel |-> benchmodel, train |-> TRUE,
               num_batches_tracked |-> 0]
    /\ UNCHANGED <<blkRet, shuffleVars, netVars, procVars, lossVars, initVars>>

\* block.eval()
BlockEval ==
    /\ blk.status = "ok" /\ blk.train /\ blkRet = None
    /\ blk' = [blk EXCEPT !.train = FALSE]
    /\ UNCHANGED <<blkRet, shuffleVars, netVars, procVars, lossVars, initVars>>

\* block(x) for a (B, C, H, W) tensor x, the first call on a fresh block
CallBlock(B, C, H, W) ==
    /\ blk.status = "ok"
    /\ blkRet = None
    /\ blkRet' = [call |-> [B |-> B, C |-> C, H |-> H, W |-> W, train |-> blk.train],
                  ret |-> BlockForward(blk, blk.train, B, C, H, W)]
    /\ blk' = IF blk.train /\ ReachesBatchNorm(blk, C)
              THEN [blk EXCEPT !.num_batches_tracked = @ + 1]
              ELSE blk
    /\ UNCHANGED <<shuffleVars, netVars, procVars, lossVars, initVars>>

NextBlock ==
    \/ \E inp \in Channels, oup \in Channels, stride \in 1..3, benchmodel \in 1..3 :
          Construct(inp, oup, stride, benchmodel)
    \/ BlockEval
    \/ \E B \in 1..MaxBatch, C \in Channels, H \in 1..MaxBlockHW, W \in 1..MaxBlockHW :
          CallBlock(B, C, H, W)

SpecBlock == InitBlock /\ [][NextBlock]_vars

\* C6 as stated: the only failure is the construction-time assertion; with
\* stride in {1, 2} construction succeeds and forward on a
\* (B, in_channels, H, W) tensor returns out_channels channels.
C6_OnlyFailureIsStrideAssertion ==
    blk # None =>
        /\ blk.stride \notin {1, 2} => blk.status = "AssertionError"
        /\ blk.stride \in {1, 2} =>
              /\ blk.status = "ok"
              /\ (blkRet # None /\ blkRet.call.C = blk.inp) =>
                    /\ blkRet.ret.status = "ok"
                    /\ Len(blkRet.ret.chans) = blk.oup

\* C6 amended: construction fails at the assertion exactly when stride is
\* outside {1, 2}; with stride in {1, 2}, in_channels >= 1 and
\* out_channels >= 2 it succeeds, and forward on a (B, in_channels, H, W)
\* tensor returns (B, out_channels, H', W') without raising when
\* out_channels is even, batch normalisation sees more than one value per
\* channel (evaluation mode, or B * H' * W' > 1), and either benchmodel = 2,
\* or benchmodel = 1 with stride = 1 and in_channels = out_channels.
C6_FailureModes ==
    blk # None =>
        /\ blk.stride \notin {1, 2} <=> blk.status = "AssertionError"
        /\ (blk.stride \in {1, 2} /\ blk.inp >= 1 /\ blk.oup >= 2) => blk.status = "ok"
        /\ blkRet # None =>
              LET c == blkRet.call
                  H2 == (c.H - 1) \div blk.stride + 1
                  W2 == (c.W - 1) \div blk.stride + 1
              IN  ( /\ c.C = blk.inp
                    /\ blk.oup % 2 = 0
                    /\ (c.train => c.B * H2 * W2 > 1)
                    /\ \/ blk.benchmodel = 2
                       \/ blk.benchmodel = 1 /\ blk.stride = 1 /\ blk.inp = blk.oup )
                  => /\ blkRet.ret.status = "ok"
                     /\ Len(blkRet.ret.chans) = blk.oup
                     /\ blkRet.ret.H = H2 /\ blkRet.ret.W = W2

\* The backbone's second block, InvertedResidual(12, 12, 1, 1), on 12 channels.
C6_Witness ==
    /\ blk # None /\ blkRet # None
    /\ blk.inp = 12 /\ blk.oup = 12 /\ blk.stride = 1 /\ blk.benchmodel = 1
    /\ blkRet.call.C = 12
    /\ blkRet.ret.status = "ok"
    /\ Len(blkRet.ret.chans) = 12

\* C10: whenever a variant-1 block returns on an input with an even channel
\* count C, output channel 2i is input channel i and output channel 2i+1 is
\* channel i of the transformed right half, for every 0 <= i < C / 2.
C10_Variant1Interleaves ==
    ( /\ blk # None /\ blkRet # None
      /\ blk.benchmodel = 1
      /\ blkRet.call.C % 2 = 0
      /\ blkRet.ret.status = "ok" )
    => /\ Len(blkRet.ret.chans) = blkRet.call.C
       /\ \A i \in 0..(blkRet.call.C \div 2 - 1) :
             /\ blkRet.ret.chans[2 * i + 1] = <<"x", i + 1>>
             /\ blkRet.ret.chans[2 * i + 2] = <<"banch2", i + 1>>

\* A variant-1 block that returned on 12 channels in training mode.
C10_Witness ==
    /\ blk # None /\ blkRet # None
    /\ blk.benchmodel = 1
    /\ blkRet.call.C = 12 /\ blkRet.call.train
    /\ blkRet.ret.status = "ok"
    /\ blkRet.ret.chans[3] = <<"x", 2>>

\* ------------------------------------------------------------------ RFDet

MaxKsize == 3
MaxPad == 2
MaxDil == 2
MaxPix == 1
MaxSteps == 1
MaxScore == 2
MaxStrength == 2

RECURSIVE Pow(_, _)
Pow(b, n) == IF n = 0 THEN 1 ELSE b * Pow(b, n - 1)

\* A scale list with a larger last anchor.
scale_list_wide == <<12, 32, 128>>

\* self.scale_list = torch.tensor([12.0, 32.0, 64.0])
scale_list == <<12, 32, 64>>

\* self.features: InvertedResidual(3, 12, 1, 2), InvertedResidual(12, 12, 1, 1)
Features ==
    << [inp |-> 3, oup |-> 12, stride |-> 1, benchmodel |-> 2],
       [inp |-> 12, oup |-> 12, stride |-> 1, benchmodel |-> 1] >>

\* feature_map = self.features(photos) on a (B, 3, H, W) image batch
Backbone(train, B, H, W) ==
    LET r1 == BlockForward(Features[1], train, B, 3, H, W)
    IN  IF r1.status # "ok" THEN r1
        ELSE BlockForward(Features[2], train, B, Len(r1.chans), r1.H, r1.W)

\* torch.nn.Upsample(scale_factor = num / den): each spatial size becomes
\* floor(size * scale_factor); an empty result is refused.
UpsampleScale(sz, num, den) ==
    LET H2 == (sz.H * num) \div den
        W2 == (sz.W * num) \div den
    IN  IF H2 = 0 \/ W2 = 0 THEN [status |-> "RuntimeError"]
        ELSE [status |-> "ok", H |-> H2, W |-> W2]

\* A resize that leaves the map at its size.
UpsampleSizeKeep(sz, H, W) == sz

\* torch.nn.Upsample(size = (H, W))
UpsampleSize(sz, H, W) == [status |-> "ok", H |-> H, W |-> W]

\* F.leaky_relu(self.insnorm_1_1(self.conv_1_1(x))): the shared head on a
\* map of size sz.  conv_1_1 has stride 1 and the constructor's ksize,
\* padding and dilation.  F.instance_norm refuses a single spatial element
\* in the library versions that look at it (strict).
ScoreHead(c, strict, sz) ==
    IF ~ConvFits(sz.H, c.ksize, c.padding, c.dilation)
       \/ ~ConvFits(sz.W, c.ksize, c.padding, c.dilation)
    THEN [status |-> "RuntimeError"]
    ELSE LET H1 == ConvOut(sz.H, c.ksize, 1, c.padding, c.dilation)
             W1 == ConvOut(sz.W, c.ksize, 1, c.padding, c.dilation)
         IN  IF strict /\ H1 * W1 = 1 THEN [status |-> "ValueError"]
             ELSE [status |-> "ok", H |-> H1, W |-> W1]

\* soft_max_and_argmax_1d over the 3-bin scale axis of one pixel: the
\* soft-max weights of the bins under a competition strength (base 2 here,
\* left unnormalised: weight i is SoftWeights[i] / their sum).
SoftWeights(x, com_strength) == [i \in 1..3 |-> Pow(2, com_strength * x[i])]

Sum3(f) == f[1] + f[2] + f[3]

\* score_map, scale_map of one pixel as fractions num / den: the weighted
\* combination of the per-scale values, and of the scale anchors.
soft_max_and_argmax_1d(x, scales, com_strength1, com_strength2) ==
    LET w1 == SoftWeights(x, com_strength1)
        w2 == SoftWeights(x, com_strength2)
    IN  [score_num |-> Sum3([i \in 1..3 |-> x[i] * w1[i]]),
         score_den |-> Sum3(w1),
         scale_num |-> Sum3([i \in 1..3 |-> scales[i] * w2[i]]),
         scale_den |-> Sum3(w2)]

\* RFDet.forward on a (B, 3, H, W) batch.  stats are the normalisation
\* statistics the batch-norm layers use; probs is one pixel's scale_probs
\* (the soft_nms_3d output).  The result keeps the sizes of the three maps
\* at the torch.cat, the returned shapes, one pixel's score and scale and
\* what the returned values depend on.
ForwardResult(c, train, w, stats, img, B, H, W, probs, strict) ==
    LET fm == Backbone(train, B, H, W)
        Fail(st, stage) == [status |-> st, stage |-> stage, cat |-> <<>>, out |-> None]
    IN  IF fm.status # "ok" THEN Fail(fm.status, "features")
        ELSE
        LET sz == [H |-> fm.H, W |-> fm.W]
            d2 == UpsampleScale(sz, 3, 4)
            d3 == UpsampleScale(sz, 1, 2)
        IN  IF d2.status # "ok" THEN Fail(d2.status, "upsample")
            ELSE IF d3.status # "ok" THEN Fail(d3.status, "upsample")
            ELSE
            LET h1 == ScoreHead(c, strict, sz)
                h2 == ScoreHead(c, strict, d2)
                h3 == ScoreHead(c, strict, d3)
            IN  IF h1.status # "ok" THEN Fail(h1.status, "head")
                ELSE IF h2.status # "ok" THEN Fail(h2.status, "head")
                ELSE IF h3.status # "ok" THEN Fail(h3.status, "head")
                ELSE
                LET u2 == UpsampleSize(h2, H, W)
                    u3 == UpsampleSize(h3, H, W)
                    cat == << <<h1.H, h1.W>>, <<u2.H, u2.W>>, <<u3.H, u3.W>> >>
                IN  IF cat[1] # cat[2] \/ cat[1] # cat[3]
                    THEN [status |-> "RuntimeError", stage |-> "cat",
                          cat |-> cat, out |-> None]
                    ELSE [status |-> "ok", stage |-> "return", cat |-> cat,
                          out |-> [score_shape |-> <<B, h1.H, h1.W, 1>>,
                                   scale_shape |-> <<B, h1.H, h1.W, 1>>,
                                   ori_shape |-> <<B, fm.H, fm.W, 2>>,
                                   pixel |-> soft_max_and_argmax_1d(probs, scale_list,
                                                 c.score_com_strength,
                                                 c.scale_com_strength),
                                   dep |-> [img |-> img, w |-> w, stats |-> stats]]]

\* The buffers of a batch-normalisation layer (momentum 0.1): the running
\* mean and variance as fractions mean_num / 10^exp and var_num / 10^exp.
FreshBuffers == [num_batches_tracked |-> 0, mean_num |-> 0, var_num |-> 1, exp |-> 0]

\* Batch normalisation that tracks its statistics in every mode.
BatchNormBuffersAlways(b, train, B, H, W, bmean, bvar) ==
    [num_batches_tracked |-> b.num_batches_tracked + 1,
     mean_num |-> 9 * b.mean_num + bmean * Pow(10, b.exp),
     var_num |-> 9 * b.var_num + bvar * Pow(10, b.exp),
     exp |-> b.exp + 1]

\* nn.BatchNorm2d in a forward call: in training mode the layer counts the
\* batch, refuses a single value per channel and otherwise moves its running statistics a tenth of
\* the way to the batch statistics; in evaluation mode it changes nothing.
BatchNormBuffers(b, train, B, H, W, bmean, bvar) ==
    IF ~train THEN b
    ELSE IF ~BatchNormOk(train, B, H, W)
    THEN [b EXCEPT !.num_batches_tracked = @ + 1]
    ELSE [num_batches_tracked |-> b.num_batches_tracked + 1,
          mean_num |-> 9 * b.mean_num + bmean * Pow(10, b.exp),
          var_num |-> 9 * b.var_num + bvar * Pow(10, b.exp),
          exp |-> b.exp + 1]

\* The statistics a batch-norm layer normalises with: the batch's own in
\* training mode, the running ones in evaluation mode.
StatsUsed(b, train, bmean, bvar) ==
    IF train THEN <<"batch", bmean, bvar, 0>>
    ELSE <<"running", b.mean_num, b.var_num, b.exp>>

\* RFDet(..., ksize, padding, dilation, ...): a module is built in training mode.
InitNet(cfgs) ==
    /\ cfg \in cfgs
    /\ training = TRUE
    /\ params = 0
    /\ bn = FreshBuffers
    /\ last = None /\ prev = None
    /\ IdleShuffle /\ IdleBlock /\ IdleProc /\ IdleLoss /\ IdleInit

Config(k, p, d, s1, s2) ==
    [ksize |-> k, padding |-> p, dilation |-> d,
     score_com_strength |-> s1, scale_com_strength |-> s2]

\* model(photos): photos is a (B, 3, H, W) batch of an image whose pixels
\* have mean and variance img; the first layer's weight is params + 1.
Forward(img, B, H, W, probs, strict) ==
    /\ training => bn.num_batches_tracked < MaxTrack
    /\ LET w == params + 1
           bmean == w * img
           bvar == w * w * img
           ret == ForwardResult(cfg, training, w, StatsUsed(bn, training, bmean, bvar),
                                img, B, H, W, probs, strict)
           bn2 == BatchNormBuffers(bn, training, B, H, W, bmean, bvar)
       IN  /\ bn' = bn2
           /\ last' = [call |-> [img |-> img, B |-> B, H |-> H, W |-> W,
                                 probs |-> probs],
                       training |-> training,
                       paramsBefore |-> params, paramsAfter |-> params,
                       bnBefore |-> bn, bnAfter |-> bn2,
                       ret |-> ret]
    /\ prev' = IF last = None THEN None
               ELSE [call |-> last.call, training |-> last.training,
                     params |-> last.paramsAfter, ret |-> last.ret]
    /\ UNCHANGED <<cfg, training, params>>
    /\ UNCHANGED <<shuffleVars, blockVars, procVars, lossVars, initVars>>

\* model.train() / model.eval()
SetTrain ==
    /\ ~training
    /\ training' = TRUE
    /\ UNCHANGED <<cfg, params, bn, last, prev>>
    /\ UNCHANGED <<shuffleVars, blockVars, procVars, lossVars, initVars>>

SetEval ==
    /\ training
    /\ training' = FALSE
    /\ UNCHANGED <<cfg, params, bn, last, prev>>
    /\ UNCHANGED <<shuffleVars, blockVars, procVars, lossVars, initVars>>

\* The external training procedure's step: the only writer of the parameters.
OptimizerStep ==
    /\ params < MaxSteps
    /\ params' = params + 1
    /\ UNCHANGED <<cfg, training, bn, last, prev>>
    /\ UNCHANGED <<shuffleVars, blockVars, procVars, lossVars, initVars>>

FixedProbs == <<0, 1, 0>>

\* The detector's life: forward calls, mode switches and optimizer steps.
Init == InitNet({Config(3, 1, 1, 1, 1)})

Next ==
    \/ \E img \in 0..MaxPix, hw \in {1, MaxHW} :
          Forward(img, 1, hw, hw, FixedProbs, TRUE)
    \/ SetTrain
    \/ SetEval
    \/ OptimizerStep

Spec == Init /\ [][Next]_vars

\* The first forward call on a fresh model, and model.eval() before it.
FirstForward(img, B, H, W, probs, strict) ==
    last = None /\ Forward(img, B, H, W, probs, strict)

EvalFirst == last = None /\ SetEval

\* The first forward call of a model built with any (ksize, padding, dilation).
InitShape ==
    InitNet({Config(k, p, d, 1, 1) : k \in 1..MaxKsize, p \in 0..MaxPad, d \in 1..MaxDil})

NextShape ==
    \/ \E B \in 1..MaxBatch, H \in 1..MaxHW, W \in 1..MaxHW, strict \in BOOLEAN :
          FirstForward(0, B, H, W, FixedProbs, strict)
    \/ EvalFirst

SpecShape == InitShape /\ [][NextShape]_vars

\* The first forward call, over one pixel's per-scale values and the
\* competition strengths.
InitScale ==
    InitNet({Config(3, 1, 1, s1, s2) : s1 \in 0..MaxStrength, s2 \in 0..MaxStrength})

NextScale ==
    \/ \E B \in 1..MaxBatch, probs \in [1..3 -> 0..MaxScore] :
          FirstForward(0, B, MaxHW, MaxHW, probs, TRUE)
    \/ EvalFirst

SpecScale == InitScale /\ [][NextScale]_vars

C2_SameSizeAtCat ==
    (last # None /\ Len(last.ret.cat) = 3) =>
        /\ last.ret.cat[1] = last.ret.cat[2]
        /\ last.ret.cat[2] = last.ret.cat[3]

\* C2 amended: at the concatenation the 0.75x and 0.5x maps both have size
\* (H, W) and the 1x map has size (H + 2 * padding - dilation * (ksize - 1),
\* W + 2 * padding - dilation * (ksize - 1)); whenever forward reaches the
\* concatenation, the three agree and the concatenation succeeds exactly
\* when 2 * padding = dilation * (ksize - 1).
C2_SameSizeIffSamePadding ==
    (last # None /\ Len(last.ret.cat) = 3) =>
        LET grow == 2 * cfg.padding - cfg.dilation * (cfg.ksize - 1)
            HW == <<last.call.H, last.call.W>>
        IN  /\ last.ret.cat[2] = HW
            /\ last.ret.cat[3] = HW
            /\ last.ret.cat[1] = <<last.call.H + grow, last.call.W + grow>>
            /\ grow = 0 => (last.ret.cat[1] = HW /\ last.ret.status = "ok")
            /\ grow # 0 => (last.ret.cat[1] # HW /\ last.ret.status = "RuntimeError")

\* A 3x3 head with padding 1 on a 4x4 image reaches the concatenation.
C2_Witness ==
    /\ last # None
    /\ cfg.ksize = 3 /\ cfg.padding = 1 /\ cfg.dilation = 1
    /\ last.call.H = 4 /\ last.call.W = 4
    /\ last.ret.status = "ok"
    /\ last.ret.cat = << <<4, 4>>, <<4, 4>>, <<4, 4>> >>

\* C8: every scale-map value forward returns lies within [12.0, 64.0].
C8_ScaleWithinAnchors ==
    (last # None /\ last.ret.status = "ok") =>
        LET px == last.ret.out.pixel
        IN  /\ px.scale_den > 0
            /\ 12 * px.scale_den <= px.scale_num
            /\ px.scale_num <= 64 * px.scale_den

\* A pixel whose scale lies strictly between the anchors 12 and 64.
C8_Witness ==
    /\ last # None /\ last.ret.status = "ok"
    /\ cfg.scale_com_strength > 0
    /\ last.call.probs = <<0, 1, 2>>
    /\ 32 * last.ret.out.pixel.scale_den < last.ret.out.pixel.scale_num
    /\ last.ret.out.pixel.scale_num < 64 * last.ret.out.pixel.scale_den

\* ----------------------------------------------------------- RFDet.process

MaxLen == 5
MaxTopk == 2

\* A score map is one row of pixels, a sequence of scores in units of
\* 1 / MaxScore.  filter_border zeroes a border of fixed width.
BorderRadius == 1

filter_border(x) ==
    [i \in 1..Len(x) |->
        IF i <= BorderRadius \/ i > Len(x) - BorderRadius THEN 0 ELSE x[i]]

\* nms: scores under thresh count as zero; the mask keeps a pixel that is
\* the maximum of its window of side ksize (zero outside the map).
nms(x, thresh, ksize) ==
    LET pad == ksize \div 2
        v == [i \in 1..Len(x) |-> IF x[i] < thresh THEN 0 ELSE x[i]]
    IN  [i \in 1..Len(x) |->
            /\ v[i] >= 0
            /\ \A j \in 1..Len(x) : (j >= i - pad /\ j <= i + pad) => v[i] >= v[j]]

\* topk_map: the mask of the k highest scores (all of them when the map has
\* fewer than k pixels).  How equal scores are ordered is left to the
\* implementation: lowest index first (tieLow) or highest index first.
topk_map(x, k, tieLow) ==
    LET Before(j, i) ==
            \/ x[j] > x[i]
            \/ x[j] = x[i] /\ (IF tieLow THEN j < i ELSE j > i)
    IN  [i \in 1..Len(x) |-> Cardinality({j \in 1..Len(x) : Before(j, i)}) < k]

\* get_gauss_filter_weight: a symmetric kernel of ksize taps, weight
\* 2^(pad - |offset|) over their sum.
GaussWeight(ksize, o) ==
    LET pad == ksize \div 2 IN Pow(2, pad - (IF o < 0 THEN -o ELSE o))

GaussTotal(ksize) ==
    LET pad == ksize \div 2
        RECURSIVE S(_)
        S(o) == IF o > pad THEN 0 ELSE GaussWeight(ksize, o) + S(o + 1)
    IN  S(-pad)

\* F.conv2d(input, psf, stride = 1, padding = ksize // 2) and
\* clamp(min = 0.0, max = 1.0), in units of 1 / (MaxScore * GaussTotal).
Smooth(x, ksize) ==
    LET pad == ksize \div 2
        RECURSIVE S(_, _)
        S(i, o) == IF o > pad THEN 0
                   ELSE (IF i + o >= 1 /\ i + o <= Len(x)
                         THEN GaussWeight(ksize, o) * x[i + o] ELSE 0) + S(i, o + 1)
        one == MaxScore * GaussTotal(ksize)
    IN  [i \in 1..Len(x) |->
            LET v == S(i, -pad)
            IN  IF v < 0 THEN 0 ELSE IF v > one THEN one ELSE v]

\* topk_value bound before the NMS mask is applied.
TopkValueBeforeNms(filtered, nmsed, masked) == filtered

\* topk_value = im1w_score, bound after the NMS mask is applied and before
\* the top-k mask is.
TopkValue(filtered, nmsed, masked) == nmsed

\* RFDet.process(im1w_score)
process(c, im1w_score) ==
    LET filtered == filter_border(im1w_score)
        nms_mask == nms(filtered, c.NMS_THRESH, c.NMS_KSIZE)
        nmsed == [i \in 1..Len(filtered) |-> IF nms_mask[i] THEN filtered[i] ELSE 0]
        topk_mask == topk_map(nmsed, c.TOPK, c.tieLow)
        masked == [i \in 1..Len(nmsed) |-> IF topk_mask[i] THEN nmsed[i] ELSE 0]
    IN  [im1w_score |-> Smooth(masked, c.GAUSSIAN_KSIZE),
         topk_mask |-> topk_mask,
         topk_value |-> TopkValue(filtered, nmsed, masked)]

InitProcess ==
    /\ procCfg \in [NMS_THRESH : 0..1, NMS_KSIZE : {1, 3}, TOPK : 1..MaxTopk,
                    GAUSSIAN_KSIZE : {3}, tieLow : BOOLEAN]
    /\ procRet = None
    /\ IdleShuffle /\ IdleBlock /\ IdleNet /\ IdleLoss /\ IdleInit

\* model.process(im1w_score)
Process(im1w_score) ==
    /\ procRet = None
    /\ procRet' = [call |-> im1w_score, ret |-> process(procCfg, im1w_score)]
    /\ UNCHANGED <<procCfg, shuffleVars, blockVars, netVars, lossVars, initVars>>

NextProcess == \E x \in [1..MaxLen -> 0..MaxScore] : Process(x)

SpecProcess == InitProcess /\ [][NextProcess]_vars

\* The border-filtered, NMS-masked score of the last call's input.
NmsMasked ==
    LET f == filter_border(procRet.call)
        m == nms(f, procCfg.NMS_THRESH, procCfg.NMS_KSIZE)
    IN  [i \in 1..Len(f) |-> IF m[i] THEN f[i] ELSE 0]

\* C3: the third value process returns is zero wherever the returned top-k
\* mask is false, and is the border-filtered, NMS-masked score wherever the
\* mask is true.
C3_ThirdValueIsTopkMasked ==
    procRet # None =>
        \A i \in 1..Len(procRet.call) :
            /\ ~procRet.ret.topk_mask[i] => procRet.ret.topk_value[i] = 0
            /\ procRet.ret.topk_mask[i] => procRet.ret.topk_value[i] = NmsMasked[i]

\* C4: top-k selection with the same TOPK over the third value process
\* returns gives exactly the mask process returned as its second value.
C4_TopkMaskRecomputes ==
    procRet # None =>
        topk_map(procRet.ret.topk_value, procCfg.TOPK, procCfg.tieLow)
            = procRet.ret.topk_mask

\* A call where NMS removed a score that would otherwise rank in the top k,
\* and where equal scores compete for the last place.
C4_Witness ==
    /\ procRet # None
    /\ procCfg.TOPK = 2 /\ procCfg.NMS_KSIZE = 3 /\ procCfg.NMS_THRESH = 0
    /\ procRet.call = <<0, 1, 2, 1, 0>>
    /\ procRet.ret.topk_value = <<0, 0, 2, 0, 0>>
    /\ procRet.ret.topk_mask[3]
    /\ Cardinality({i \in 1..MaxLen : procRet.ret.topk_mask[i]}) = 2

\* -------------------------------------------------------------- RFDet.loss

\* Tensor elements are floats: a finite value up to FloatMax, inf or nan.
\* A result above FloatMax overflows to inf, and inf * 0 is nan.
FloatMax == 2
MaxPixels == 3
BatchSizes == {1, 2}

Fin(v) == [k |-> "fin", v |-> v]
Inf == [k |-> "inf", v |-> 0]
NaN == [k |-> "nan", v |-> 0]
Round(v) == IF v > FloatMax THEN Inf ELSE Fin(v)

FAdd(x, y) ==
    IF x.k = "nan" \/ y.k = "nan" THEN NaN
    ELSE IF x.k = "inf" \/ y.k = "inf" THEN Inf
    ELSE Round(x.v + y.v)

\* x * m for a visibility value m in {0, 1}
FMulMask(x, m) ==
    IF x.k = "nan" THEN NaN
    ELSE IF x.k = "inf" THEN (IF m = 0 THEN NaN ELSE Inf)
    ELSE Fin(x.v * m)

\* l2_element_diff = (im1_score - im1gt_score) ** 2
SquaredDiff(a, b) == Round((a - b) * (a - b))

\* The visible-pixel count without its floor.
NviNoFloor(count) == count

\* Nvi = torch.clamp(im1visible_mask.sum(dim=(3, 2, 1)), min=2.0)
Nvi(count) == IF count < 2 THEN 2 ELSE count

RECURSIVE MaskedSum(_, _)
\* torch.sum(l2_element_diff * im1visible_mask, dim=(3, 2, 1)) of one element
MaskedSum(e, i) ==
    IF i > Len(e) THEN Fin(0)
    ELSE FAdd(FMulMask(SquaredDiff(e[i].left, e[i].gt), e[i].mask), MaskedSum(e, i + 1))

RECURSIVE MaskCount(_, _)
MaskCount(e, i) == IF i > Len(e) THEN 0 ELSE e[i].mask + MaskCount(e, i + 1)

\* One batch element's quotient sum / (Nvi + 1e-8) as the fraction num / den.
\* Adding 1e-8 to a float of 1 or more leaves it as it is; a divisor of 0
\* becomes 1e-8, which keeps a zero sum zero and overflows any other.
Quotient(sum, n) ==
    IF sum.k # "fin" THEN [k |-> sum.k, num |-> 0, den |-> 1]
    ELSE IF n = 0 THEN (IF sum.v = 0 THEN [k |-> "fin", num |-> 0, den |-> 1]
                        ELSE [k |-> "inf", num |-> 0, den |-> 1])
    ELSE [k |-> "fin", num |-> sum.v, den |-> n]

RECURSIVE BatchMeanOf(_, _)
\* (...).mean(): the sum of the quotients from element i on, as a fraction.
BatchMeanOf(q, i) ==
    IF i > Len(q) THEN [k |-> "fin", num |-> 0, den |-> 1]
    ELSE LET r == BatchMeanOf(q, i + 1)
         IN  IF q[i].k = "nan" \/ r.k = "nan" THEN [k |-> "nan", num |-> 0, den |-> 1]
             ELSE IF q[i].k = "inf" \/ r.k = "inf" THEN [k |-> "inf", num |-> 0, den |-> 1]
             ELSE [k |-> "fin", num |-> q[i].num * r.den + r.num * q[i].den,
                   den |-> q[i].den * r.den]

\* RFDet.loss(left_score, im1gt_score, im1visible_mask); batch is a
\* sequence of elements, each a sequence of pixels [left, gt, mask].
loss(batch) ==
    LET divisors == [b \in 1..Len(batch) |-> Nvi(MaskCount(batch[b], 1))]
        q == [b \in 1..Len(batch) |-> Quotient(MaskedSum(batch[b], 1), divisors[b])]
        total == BatchMeanOf(q, 1)
    IN  [k |-> total.k, num |-> total.num, den |-> total.den * Len(batch),
         divisors |-> divisors]

\* A pixel: a predicted score of 0, 1 or the largest finite float, a
\* ground-truth score of 0, visible or not.
Pixels == [left : {0, 1, FloatMax}, gt : {0}, mask : {0, 1}]

PixelRank(px) == 2 * (IF px.left = 0 THEN 0 ELSE IF px.left = 1 THEN 1 ELSE 2) + px.mask

\* The sums run over the pixels of an element in any order: elements are
\* drawn with their pixels sorted.
Elements ==
    {e \in [1..MaxPixels -> Pixels] :
        \A i \in 1..(MaxPixels - 1) : PixelRank(e[i]) <= PixelRank(e[i + 1])}

InitLoss ==
    /\ lossRet = None
    /\ IdleShuffle /\ IdleBlock /\ IdleNet /\ IdleProc /\ IdleInit

\* RFDet.loss(...)
Loss(batch) ==
    /\ lossRet = None
    /\ lossRet' = [call |-> batch, ret |-> loss(batch)]
    /\ UNCHANGED <<shuffleVars, blockVars, netVars, procVars, initVars>>

NextLoss == \E B \in BatchSizes : \E batch \in [1..B -> Elements] : Loss(batch)

SpecLoss == InitLoss /\ [][NextLoss]_vars

AllInvisible(batch) ==
    \A b \in 1..Len(batch) : \A i \in 1..Len(batch[b]) : batch[b][i].mask = 0

NoOverflow(batch) ==
    \A b \in 1..Len(batch) : \A i \in 1..Len(batch[b]) :
        (batch[b][i].left - batch[b][i].gt) * (batch[b][i].left - batch[b][i].gt) <= FloatMax

VisibleCount(e) == Cardinality({i \in 1..Len(e) : e[i].mask = 1})

\* C9 as stated: every element's sum is divided by its visible-pixel count
\* floored at 2, and for every finite predicted and ground-truth map an
\* all-zero visibility mask gives a finite loss, zero.
C9_FlooredDivisorFiniteLoss ==
    lossRet # None =>
        /\ \A b \in 1..Len(lossRet.call) :
              /\ lossRet.ret.divisors[b] >= 2
              /\ lossRet.ret.divisors[b] >= VisibleCount(lossRet.call[b])
        /\ AllInvisible(lossRet.call) =>
              (lossRet.ret.k = "fin" /\ lossRet.ret.num = 0)

\* C9 amended: every element's sum is divided by its visible-pixel count
\* floored at 2 (never by less than 2), and an all-zero visibility mask
\* gives a finite loss, zero, for every predicted and ground-truth map whose
\* squared differences are finite (none overflows).
C9_FlooredDivisorFiniteWithoutOverflow ==
    lossRet # None =>
        /\ \A b \in 1..Len(lossRet.call) :
              LET n == VisibleCount(lossRet.call[b])
              IN  /\ lossRet.ret.divisors[b] >= 2
                  /\ n >= 2 => lossRet.ret.divisors[b] = n
        /\ (AllInvisible(lossRet.call) /\ NoOverflow(lossRet.call)) =>
              (lossRet.ret.k = "fin" /\ lossRet.ret.num = 0)

\* A two-element batch of finite differences with nothing visible.
C9_Witness ==
    /\ lossRet # None
    /\ Len(lossRet.call) = 2
    /\ AllInvisible(lossRet.call) /\ NoOverflow(lossRet.call)
    /\ \E i \in 1..MaxPixels : lossRet.call[1][i].left = 1
    /\ lossRet.ret.divisors = <<2, 2>>
    /\ lossRet.ret.k = "fin" /\ lossRet.ret.num = 0

\* ------------------------------------------------ weights_init, convO_init

\* nn.init.xavier_uniform_ needs a fan-in and a fan-out: it raises
\* ValueError on a tensor of fewer than 2 dimensions.
XavierUniform(ndim) == IF ndim < 2 THEN "ValueError" ELSE "ok"

\* The modules an initializer pass visits: the heads' convolutions (with
\* bias), a backbone convolution (bias=False) and the normalisation layers.
\* A convolution's weight has 4 dimensions, a bias 1.
Module(kind, has_bias) ==
    [kind |-> kind, weight |-> "default",
     bias |-> IF has_bias THEN "default" ELSE "absent"]

Modules ==
    << Module("Conv2d", TRUE), Module("InstanceNorm2d", TRUE), Module("Conv2d", TRUE),
       Module("Conv2d", TRUE), Module("Conv2d", FALSE), Module("BatchNorm2d", TRUE) >>

\* RFDet.weights_init(m): the module after the call and the error the bare
\* except swallowed ("none" when the try block ran through).
weights_init(m) ==
    IF m.kind # "Conv2d" THEN [m |-> m, swallowed |-> "none"]
    ELSE LET m1 == [m EXCEPT !.weight = "xavier_uniform"]
         IN  IF m.bias = "absent" THEN [m |-> m1, swallowed |-> "AttributeError"]
             ELSE IF XavierUniform(1) # "ok"
             THEN [m |-> m1, swallowed |-> XavierUniform(1)]
             ELSE [m |-> [m1 EXCEPT !.bias = "xavier_uniform"], swallowed |-> "none"]

\* RFDet.convO_init(m)
convO_init(m) ==
    IF m.kind # "Conv2d" THEN [m |-> m, swallowed |-> "none"]
    ELSE LET m1 == [m EXCEPT !.weight = "zeros"]
         IN  IF m.bias = "absent" THEN [m |-> m1, swallowed |-> "AttributeError"]
             ELSE [m |-> [m1 EXCEPT !.bias = "ones"], swallowed |-> "none"]

InitInit ==
    /\ mods = Modules
    /\ initLast = None
    /\ IdleShuffle /\ IdleBlock /\ IdleNet /\ IdleProc /\ IdleLoss

WeightsInit(i) ==
    /\ mods' = [mods EXCEPT ![i] = weights_init(mods[i]).m]
    /\ initLast' = [fn |-> "weights_init", before |-> mods[i], after |-> mods'[i],
                    swallowed |-> weights_init(mods[i]).swallowed]
    /\ UNCHANGED <<shuffleVars, blockVars, netVars, procVars, lossVars>>

ConvOInit(i) ==
    /\ mods' = [mods EXCEPT ![i] = convO_init(mods[i]).m]
    /\ initLast' = [fn |-> "convO_init", before |-> mods[i], after |-> mods'[i],
                    swallowed |-> convO_init(mods[i]).swallowed]
    /\ UNCHANGED <<shuffleVars, blockVars, netVars, procVars, lossVars>>

NextInit == \E i \in 1..Len(Modules) : WeightsInit(i) \/ ConvOInit(i)

SpecInit == InitInit /\ [][NextInit]_vars

\* C7: weights_init on a convolution sets the weight by Xavier-uniform and,
\* when the module has a bias, the bias by Xavier-uniform too; an error is
\* swallowed only when the bias is absent; other modules are left unchanged.
C7_WeightsInitSetsBias ==
    (initLast # None /\ initLast.fn = "weights_init") =>
        IF initLast.before.kind = "Conv2d"
        THEN /\ initLast.after.weight = "xavier_uniform"
             /\ initLast.before.bias # "absent" => initLast.after.bias = "xavier_uniform"
             /\ initLast.swallowed # "none" => initLast.before.bias = "absent"
        ELSE initLast.after = initLast.before

====
